---- MODULE Spec2Model ----
(***************************************************************************)
(* Model of the Telegram AI agent (src/main.py) and of the HTTP webhook    *)
(* (src/app.py): intent classification, LLM-based event extraction, the    *)
(* regex fallback event builder and the command dispatcher.                *)
(*                                                                         *)
(* Text is a sequence of one-character strings, so that substring tests,   *)
(* regular-expression searches, split(), strip() and lower() are computed  *)
(* as Python computes them.  A datetime is a record of its day (a day      *)
(* number standing for the calendar date), hour, minute, second and        *)
(* microsecond.  The emoji of the reply templates are written as ASCII     *)
(* tags: [X] for the cross mark, [OK] for the check mark, and so on.       *)
(***************************************************************************)
EXTENDS Integers, Sequences, FiniteSets, TLC

VARIABLES
    pc,            \* position of the turn being handled
    transport,     \* "telegram", "webhook" or "unit" (a component called directly)
    user_message,  \* update.message.text / data.get("text")
    clock,         \* the datetime.now() read while handling the turn
    intent,        \* the dict returned by analyze_intent
    ai_response,   \* the envelope returned by ai_chat (or the webhook's LLM result)
    draft,         \* event_data / event_details handed to create_calendar_event
    calls,         \* external calls made while handling the turn, in order
    response,      \* the reply string, as a sequence of template parts
    replies,       \* reply_text calls that delivered a reply for the turn
    first,         \* history: the first classified text, its intent, and whether it came again
    agent          \* the agent-level fields set by __init__ / authenticate_google

vars == << pc, transport, user_message, clock, intent, ai_response, draft,
           calls, response, replies, first, agent >>

----------------------------------------------------------------------------
(* Characters and strings                                                  *)

UpperAlpha ==
    << "A","B","C","D","E","F","G","H","I","J","K","L","M",
       "N","O","P","Q","R","S","T","U","V","W","X","Y","Z" >>

LowerAlpha ==
    << "a","b","c","d","e","f","g","h","i","j","k","l","m",
       "n","o","p","q","r","s","t","u","v","w","x","y","z" >>

DigitChars == << "0","1","2","3","4","5","6","7","8","9" >>

\* str.isspace for the characters of the model: what \s matches and what
\* split() and strip() treat as whitespace.
IsSpace(c) == c \in {" ", "\n", "\t"}

\* \d
IsDigit(c) == \E d \in 1..10 : DigitChars[d] = c

DigitVal(c) == (CHOOSE d \in 1..10 : DigitChars[d] = c) - 1

\* int(s) for a string of decimal digits
RECURSIVE ToInt(_)
ToInt(s) ==
    IF s = <<>> THEN 0
    ELSE ToInt(SubSeq(s, 1, Len(s) - 1)) * 10 + DigitVal(s[Len(s)])

LowerChar(c) ==
    IF \E i \in 1..26 : UpperAlpha[i] = c
    THEN LowerAlpha[CHOOSE i \in 1..26 : UpperAlpha[i] = c]
    ELSE c

\* str.lower()
lower(s) == [i \in 1..Len(s) |-> LowerChar(s[i])]

\* w occurs in s at (1-based) position i
OccursAt(s, i, w) ==
    /\ i >= 1
    /\ i + Len(w) - 1 <= Len(s)
    /\ SubSeq(s, i, i + Len(w) - 1) = w

\* Python's "w in s" on strings
Contains(s, w) == \E i \in 1..(Len(s) + 1) : OccursAt(s, i, w)

\* any(keyword in s for keyword in keywords)
AnyIn(keywords, s) == \E k \in 1..Len(keywords) : Contains(s, keywords[k])

SetMin(S) == CHOOSE x \in S : \A y \in S : x <= y

\* the position of the first character at or after j that \s does not match
\* (Len(s) + 1 when there is none): where a greedy \s* started at j ends
SkipSpace(s, j) ==
    IF j > Len(s) THEN j ELSE
    SetMin({k \in j..(Len(s) + 1) : k = Len(s) + 1 \/ ~IsSpace(s[k])})

\* where a greedy \d+ started at j ends
SkipDigits(s, j) ==
    IF j > Len(s) THEN j ELSE
    SetMin({k \in j..(Len(s) + 1) : k = Len(s) + 1 \/ ~IsDigit(s[k])})

\* where a run of non-whitespace started at j ends
SkipWord(s, j) ==
    IF j > Len(s) THEN j ELSE
    SetMin({k \in j..(Len(s) + 1) : k = Len(s) + 1 \/ IsSpace(s[k])})

\* str.strip()
SetMax(S) == CHOOSE x \in S : \A y \in S : y <= x

Between(s, keep) ==
    IF keep = {} THEN <<>> ELSE SubSeq(s, SetMin(keep), SetMax(keep))

strip(s) == Between(s, {i \in 1..Len(s) : ~IsSpace(s[i])})

\* str.split() with no separator: the maximal runs of non-whitespace
RECURSIVE split(_)
split(s) ==
    IF SkipSpace(s, 1) > Len(s) THEN <<>>
    ELSE << SubSeq(s, SkipSpace(s, 1), SkipWord(s, SkipSpace(s, 1)) - 1) >>
         \o split(SubSeq(s, SkipWord(s, SkipSpace(s, 1)), Len(s)))

\* sep.join(parts)
RECURSIVE join(_, _)
join(sep, parts) ==
    IF parts = <<>> THEN <<>>
    ELSE IF Len(parts) = 1 THEN parts[1]
    ELSE parts[1] \o sep \o join(sep, Tail(parts))

\* s.replace(old, new) for a non-empty old: every non-overlapping occurrence,
\* scanning from the left
RECURSIVE replace(_, _, _)
replace(s, old, new) ==
    IF s = <<>> THEN <<>>
    ELSE IF OccursAt(s, 1, old)
         THEN new \o replace(SubSeq(s, Len(old) + 1, Len(s)), old, new)
         ELSE << s[1] >> \o replace(Tail(s), old, new)

----------------------------------------------------------------------------
(* Intent classifier: TelegramAIAgent.analyze_intent                       *)

gmail_keywords ==
    << <<"e","m","a","i","l">>,
       <<"g","m","a","i","l">>,
       <<"m","a","i","l">>,
       <<"i","n","b","o","x">>,
       <<"s","e","a","r","c","h">>,
       <<"u","n","r","e","a","d">>,
       <<"f","r","o","m",":">>,
       <<"s","u","b","j","e","c","t",":">> >>

calendar_create_keywords ==
    << <<"m","e","e","t","i","n","g">>,
       <<"a","p","p","o","i","n","t","m","e","n","t">>,
       <<"s","c","h","e","d","u","l","e">>,
       <<"e","v","e","n","t">>,
       <<"r","e","m","i","n","d"," ","m","e"," ","a","t">>,
       <<"b","o","o","k">>,
       <<"p","l","a","n">> >>

calendar_view_keywords ==
    << <<"c","a","l","e","n","d","a","r">>,
       <<"e","v","e","n","t","s">>,
       <<"w","h","a","t","'","s"," ","o","n">>,
       <<"m","e","e","t","i","n","g","s"," ","t","o","d","a","y">>,
       <<"a","g","e","n","d","a">> >>

task_create_keywords ==
    << <<"t","a","s","k">>,
       <<"t","o","d","o">>,
       <<"a","d","d"," ","t","a","s","k">>,
       <<"r","e","m","i","n","d","e","r">>,
       <<"r","e","m","e","m","b","e","r"," ","t","o">>,
       <<"n","e","e","d"," ","t","o">> >>

task_view_keywords ==
    << <<"t","a","s","k","s">>,
       <<"t","o","d","o"," ","l","i","s","t">>,
       <<"w","h","a","t"," ","t","a","s","k","s">>,
       <<"m","y"," ","t","a","s","k","s">> >>

\* analyze_intent with the fields read from the state it could depend on:
\* a classifier that answers from the conversation history instead of the text
analyze_intent_from_history(message) ==
    LET message_lower == lower(message)
    IN  IF first # <<>> /\ first[1].msg = message
        THEN [action |-> "chat"]
        ELSE IF AnyIn(gmail_keywords, message_lower)
        THEN [action |-> "search_gmail", query |-> message]
        ELSE IF AnyIn(calendar_create_keywords, message_lower)
        THEN [action |-> "create_calendar_event", title |-> message, query |-> message]
        ELSE IF AnyIn(calendar_view_keywords, message_lower)
        THEN [action |-> "get_calendar"]
        ELSE IF AnyIn(task_create_keywords, message_lower)
        THEN [action |-> "create_task", title |-> message]
        ELSE IF AnyIn(task_view_keywords, message_lower)
        THEN [action |-> "get_tasks"]
        ELSE [action |-> "chat"]

\* analyze_intent with the mail and event-creation tests in the other order
analyze_intent_event_first(message) ==
    LET message_lower == lower(message)
    IN  IF AnyIn(calendar_create_keywords, message_lower)
        THEN [action |-> "create_calendar_event", title |-> message, query |-> message]
        ELSE IF AnyIn(gmail_keywords, message_lower)
        THEN [action |-> "search_gmail", query |-> message]
        ELSE IF AnyIn(calendar_view_keywords, message_lower)
        THEN [action |-> "get_calendar"]
        ELSE IF AnyIn(task_create_keywords, message_lower)
        THEN [action |-> "create_task", title |-> message]
        ELSE IF AnyIn(task_view_keywords, message_lower)
        THEN [action |-> "get_tasks"]
        ELSE [action |-> "chat"]

analyze_intent(message) ==
    LET message_lower == lower(message)
    IN  IF AnyIn(gmail_keywords, message_lower)
        THEN [action |-> "search_gmail", query |-> message]
        ELSE IF AnyIn(calendar_create_keywords, message_lower)
        THEN [action |-> "create_calendar_event", title |-> message, query |-> message]
        ELSE IF AnyIn(calendar_view_keywords, message_lower)
        THEN [action |-> "get_calendar"]
        ELSE IF AnyIn(task_create_keywords, message_lower)
        THEN [action |-> "create_task", title |-> message]
        ELSE IF AnyIn(task_view_keywords, message_lower)
        THEN [action |-> "get_tasks"]
        ELSE [action |-> "chat"]

----------------------------------------------------------------------------
(* datetime and timedelta                                                  *)

DefaultHour == 10
DefaultDurationHours == 1
NextWeekDays == 7
TitleTokens == 3

\* datetime.replace(hour=, minute=, second=, microsecond=)
dt_replace(dt, h, m, s, us) ==
    [day |-> dt.day, hour |-> h, minute |-> m, second |-> s, microsecond |-> us]

\* datetime.replace(hour=h, minute=m) raises ValueError outside these ranges
valid_time(h, m) == h \in 0..23 /\ m \in 0..59

\* dt + timedelta(days=n)
add_days(dt, n) == [dt EXCEPT !.day = dt.day + n]

\* dt + timedelta(hours=n)
add_hours(dt, n) ==
    [dt EXCEPT !.day  = dt.day + ((dt.hour + n) \div 24),
               !.hour = (dt.hour + n) % 24]

\* datetime.isoformat(): date, "T", time to the second, and the microseconds
\* only when they are not zero
isoformat(dt) ==
    IF dt.microsecond = 0
    THEN << dt.day, dt.hour, dt.minute, dt.second >>
    ELSE << dt.day, dt.hour, dt.minute, dt.second, dt.microsecond >>

\* strftime('%Y-%m-%d %H:%M') and strftime('%H:%M')
strftime_date_hm(dt) == << dt.day, dt.hour, dt.minute >>

strftime_hm(dt) == << dt.hour, dt.minute >>

----------------------------------------------------------------------------
(* Regular expressions of parse_event_manually                             *)

S_at == <<"a","t">>
S_am == <<"a","m">>
S_pm == <<"p","m">>
S_hour == <<"h","o","u","r">>
S_hr == <<"h","r">>
S_oclock == <<"o","c","l","o","c","k">>
S_o_clock == <<"o","'","c","l","o","c","k">>
S_today == <<"t","o","d","a","y">>
S_tomorrow == <<"t","o","m","o","r","r","o","w">>
S_next_week == <<"n","e","x","t"," ","w","e","e","k">>
S_add_task == <<"a","d","d"," ","t","a","s","k">>
S_task_colon == <<"t","a","s","k",":">>
S_New_Event == <<"N","e","w"," ","E","v","e","n","t">>
S_space == <<" ">>

\* (?:at|on|tomorrow|today|next|this)
TitleCues ==
    << <<"a","t">>,
       <<"o","n">>,
       <<"t","o","m","o","r","r","o","w">>,
       <<"t","o","d","a","y">>,
       <<"n","e","x","t">>,
       <<"t","h","i","s">> >>

\* A match object: where the match starts and its capture groups; a group
\* that took no part in the match (Python's None) is the empty string here.
NoMatch == [start |-> 0, groups |-> <<>>]

NoGroup == <<>>

\* \s+(?:at|on|tomorrow|today|next|this) matches at position p
CueAt(s, p) ==
    /\ p <= Len(s)
    /\ IsSpace(s[p])
    /\ \E q \in (p + 1)..SkipSpace(s, p) :
           \E c \in 1..Len(TitleCues) : OccursAt(s, q, TitleCues[c])

\* the prefix the lazy group (.*?) takes: the shortest of the candidates
ShortestPrefix(s, hits) ==
    IF hits = {} THEN NoMatch
    ELSE [start |-> 1, groups |-> << SubSeq(s, 1, SetMin(hits)) >>]

\* re.search(r'^(.*?)(?:\s+(?:at|on|tomorrow|today|next|this))', s):
\* the lazy group takes the shortest prefix, free of newlines, that a cue follows
re_title(s) ==
    ShortestPrefix(s, {n \in 0..Len(s) :
                          /\ \A i \in 1..n : s[i] # "\n"
                          /\ CueAt(s, n + 1)})

\* the end of the greedy (\d{1,2}) started at i
HourEnd(s, i) == IF i + 1 <= Len(s) /\ IsDigit(s[i + 1]) THEN i + 2 ELSE i + 1

\* (am|pm) at position p: the suffix found there, or no group
AmPmAt(s, p) ==
    IF OccursAt(s, p, S_am) THEN S_am
    ELSE IF OccursAt(s, p, S_pm) THEN S_pm
    ELSE NoGroup

\* (\d{1,2})\s*(?::|\.)\s*(\d{2})\s*(am|pm)? matched at i, the separator
\* standing at sep and the minutes at mm
ColonMatchFrom(s, i, sep, mm) ==
    IF /\ IsDigit(s[i])
       /\ sep <= Len(s)
       /\ s[sep] \in {":", "."}
       /\ mm + 1 <= Len(s)
       /\ IsDigit(s[mm])
       /\ IsDigit(s[mm + 1])
    THEN [start |-> i,
          groups |-> << SubSeq(s, i, HourEnd(s, i) - 1),
                        SubSeq(s, mm, mm + 1),
                        AmPmAt(s, SkipSpace(s, mm + 2)) >>]
    ELSE NoMatch

ColonMatchSep(s, i, sep) == ColonMatchFrom(s, i, sep, SkipSpace(s, sep + 1))

ColonMatchAt(s, i) == ColonMatchSep(s, i, SkipSpace(s, HourEnd(s, i)))

\* (\d{1,2})\s*(am|pm) matched at i, the suffix standing at sfx
AmPmMatchFrom(s, i, sfx) ==
    IF IsDigit(s[i]) /\ AmPmAt(s, sfx) # NoGroup
    THEN [start |-> i,
          groups |-> << SubSeq(s, i, HourEnd(s, i) - 1), AmPmAt(s, sfx) >>]
    ELSE NoMatch

AmPmMatchAt(s, i) == AmPmMatchFrom(s, i, SkipSpace(s, HourEnd(s, i)))

\* (\d{1,2})\s*(?:o\'?clock) matched at i, the word standing at w
OclockMatchFrom(s, i, w) ==
    IF IsDigit(s[i]) /\ (OccursAt(s, w, S_oclock) \/ OccursAt(s, w, S_o_clock))
    THEN [start |-> i, groups |-> << SubSeq(s, i, HourEnd(s, i) - 1) >>]
    ELSE NoMatch

OclockMatchAt(s, i) == OclockMatchFrom(s, i, SkipSpace(s, HourEnd(s, i)))

\* (\d+)\s*(?:hour|hr)s? matched at i, the digits ending before e
DurationMatchFrom(s, i, e, w) ==
    IF IsDigit(s[i]) /\ (OccursAt(s, w, S_hour) \/ OccursAt(s, w, S_hr))
    THEN [start |-> i, groups |-> << SubSeq(s, i, e - 1) >>]
    ELSE NoMatch

DurationMatchEnd(s, i, e) == DurationMatchFrom(s, i, e, SkipSpace(s, e))

DurationMatchAt(s, i) == DurationMatchEnd(s, i, SkipDigits(s, i))

time_patterns == << "time_colon", "time_ampm", "time_oclock" >>

PatternMatchAt(type_name, s, i) ==
    CASE type_name = "time_colon"  -> ColonMatchAt(s, i)
      [] type_name = "time_ampm"   -> AmPmMatchAt(s, i)
      [] type_name = "time_oclock" -> OclockMatchAt(s, i)
      [] type_name = "duration"    -> DurationMatchAt(s, i)

\* the leftmost of the positions where the pattern matches
LeftmostMatch(type_name, s, hits) ==
    IF hits = {} THEN NoMatch ELSE PatternMatchAt(type_name, s, SetMin(hits))

\* re.search(pattern, s): the leftmost match, or None
re_search(type_name, s) ==
    LeftmostMatch(type_name, s,
                  {i \in 1..Len(s) : PatternMatchAt(type_name, s, i).start > 0})

\* re.Match.group(n) answers for n in 0..len(groups) and raises IndexError
\* ("no such group") for any other n, negative ones included.
group_index_ok(match, n) == n \in 0..Len(match.groups)

group(match, n) ==
    IF n > 0 THEN match.groups[n] ELSE match.groups[Len(match.groups) + 1 + n]

----------------------------------------------------------------------------
(* Reply strings: the parts of the f-string, in order.  A literal part is  *)
(* a piece of the template; the other parts are interpolated values.       *)

Lit(s) == [k |-> "lit", v |-> s]

Val(kind, v) == [k |-> kind, v |-> v]

\* dict.get(key, default)
Get(d, key, default) == IF key \in DOMAIN d THEN d[key] ELSE default

\* the truth value of result.get('success')
Succeeded(result) == "success" \in DOMAIN result /\ result["success"] = TRUE

----------------------------------------------------------------------------
(* Calendar collaborator: TelegramAIAgent.create_calendar_event            *)

\* What calendar_service.events().insert(...).execute() does: it returns the
\* created event or raises.
InsertOutcomes ==
    { [ok |-> TRUE,  error |-> ""],
      [ok |-> FALSE, error |-> "HttpError 403"] }

\* The result of the insert call
insert_result(call, outcome) ==
    IF outcome.ok
    THEN [result |-> [success   |-> TRUE,
                      event_id  |-> "evt",
                      html_link |-> "link",
                      message   |-> "Event created successfully"],
          calls |-> << call >>]
    ELSE [result |-> [error |-> outcome.error], calls |-> << call >>]

\* A missing title, start_time or end_time raises KeyError before the call
create_calendar_event(event_data, outcome) ==
    IF ~({"title", "start_time", "end_time"} \subseteq DOMAIN event_data)
    THEN [result |-> [error |-> "KeyError"], calls |-> <<>>]
    ELSE insert_result([op      |-> "calendar.events.insert",
                        summary |-> event_data["title"],
                        start   |-> event_data["start_time"],
                        end     |-> event_data["end_time"],
                        raised  |-> ~outcome.ok],
                       outcome)

----------------------------------------------------------------------------
(* Fallback event builder: TelegramAIAgent.parse_event_manually            *)

NoDraft == [none |-> TRUE]

S_Created_from == <<"C","r","e","a","t","e","d"," ","f","r","o","m",":"," ">>

\* message.split()[0:3], joined with spaces
first_tokens(tokens) ==
    join(S_space, SubSeq(tokens, 1,
         IF Len(tokens) < TitleTokens THEN Len(tokens) ELSE TitleTokens))

\* title_match.group(1).strip() if title_match else message.split()[0:3]
title_from(title_match, message) ==
    IF title_match.start > 0
    THEN strip(group(title_match, 1))
    ELSE first_tokens(split(message))

\* The title: the text before the first time/date keyword of message.lower()
title_of(message) == title_from(re_title(lower(message)), message)

\* The AM/PM adjustment of the hour, given the suffix group
hour_24(hour, suffix) ==
    IF suffix # NoGroup /\ lower(suffix) = S_pm /\ hour # 12 THEN hour + 12
    ELSE IF suffix # NoGroup /\ lower(suffix) = S_am /\ hour = 12 THEN 0
    ELSE hour

\* start_time.replace(hour=hour, minute=minute), which raises ValueError for
\* an hour or a minute out of range.  exc names the exception raised, "" for none.
set_time(start_time, hour, minute) ==
    IF valid_time(hour, minute)
    THEN [exc |-> "", start_time |-> [start_time EXCEPT !.hour = hour, !.minute = minute]]
    ELSE [exc |-> "ValueError: hour must be in 0..23", start_time |-> start_time]

\* The body of "if match:": hour and minute from the groups, the AM/PM test
\* "len(match.groups()) >= 3 and match.group(-1)", and the replace
time_from_match(type_name, match, start_time) ==
    IF Len(match.groups) >= 3 /\ ~group_index_ok(match, -1)
    THEN [exc |-> "IndexError: no such group", start_time |-> start_time]
    ELSE set_time(start_time,
                  hour_24(ToInt(group(match, 1)),
                          IF Len(match.groups) >= 3 THEN group(match, -1) ELSE NoGroup),
                  IF type_name = "time_colon" THEN ToInt(group(match, 2)) ELSE 0)

\* The loop over time_patterns from the k-th pattern on: the first pattern
\* that matches sets the time, and the loop breaks
RECURSIVE time_loop(_, _, _)
time_loop(k, message_lower, start_time) ==
    IF k > Len(time_patterns)
    THEN [exc |-> "", start_time |-> start_time]
    ELSE IF re_search(time_patterns[k], message_lower).start > 0
    THEN time_from_match(time_patterns[k],
                         re_search(time_patterns[k], message_lower), start_time)
    ELSE time_loop(k + 1, message_lower, start_time)

time_of(message_lower, start_time) == time_loop(1, message_lower, start_time)

\* timedelta(hours=int(duration_match.group(1))) or the default of one hour
duration_from(duration_match) ==
    IF duration_match.start > 0
    THEN ToInt(group(duration_match, 1))
    ELSE DefaultDurationHours

duration_of(message_lower) == duration_from(re_search("duration", message_lower))

\* The date keywords: today, tomorrow, next week, tested in this order
date_of(message_lower, start_time, now) ==
    IF Contains(message_lower, S_today)
    THEN dt_replace(now, start_time.hour, start_time.minute, 0, 0)
    ELSE IF Contains(message_lower, S_tomorrow)
    THEN start_time
    ELSE IF Contains(message_lower, S_next_week)
    THEN add_days(start_time, NextWeekDays)
    ELSE start_time

\* default_start without the day added: ten o'clock of the current day
default_start_same_day(now) == dt_replace(now, DefaultHour, 0, 0, 0)

\* now.replace(hour=10, minute=0, second=0, microsecond=0) + timedelta(days=1)
default_start(now) == add_days(dt_replace(now, DefaultHour, 0, 0, 0), 1)

\* event_data, with end_time = start_time + duration
event_of(message, title, start_time, duration) ==
    [exc |-> "",
     start_time |-> start_time,
     end_time |-> add_hours(start_time, duration),
     event_data |-> [title       |-> IF title # <<>> THEN title ELSE S_New_Event,
                     start_time  |-> isoformat(start_time),
                     end_time    |-> isoformat(add_hours(start_time, duration)),
                     description |-> S_Created_from \o message]]

\* The rest of the try block once the time loop has run
event_after_time(message, now, title, timed, duration) ==
    IF timed.exc # ""
    THEN [exc |-> timed.exc]
    ELSE event_of(message, title,
                  date_of(lower(message), timed.start_time, now), duration)

\* The body of the try block up to event_data: the times and the draft, or
\* the exception raised on the way
build_event(message, now) ==
    event_after_time(message, now,
                     title_of(message),
                     time_of(lower(message), default_start(now)),
                     duration_of(lower(message)))

\* The reply for the result of create_calendar_event
fallback_reply(built, created) ==
    [response |->
         IF Succeeded(created.result)
         THEN << Lit("[OK] **Event Created!**"),
                 Val("title", built.event_data["title"]),
                 Lit("[clock] "),
                 Val("time", strftime_date_hm(built.start_time)),
                 Lit(" - "),
                 Val("time", strftime_hm(built.end_time)),
                 Lit("[View Event]"),
                 Val("link", Get(created.result, "html_link", "#")) >>
         ELSE << Lit("[X] Failed to create event: "),
                 Val("error", Get(created.result, "error", "Unknown error")) >>,
     draft |-> built.event_data,
     calls |-> created.calls]

\* The create call and the reply, or the reply of the except branch
fallback_result(built, insert_outcome) ==
    IF built.exc # ""
    THEN [response |-> << Lit("[X] Error parsing event: "), Val("error", built.exc) >>,
          draft |-> NoDraft,
          calls |-> <<>>]
    ELSE fallback_reply(built, create_calendar_event(built.event_data, insert_outcome))

parse_event_manually(message, now, insert_outcome) ==
    fallback_result(build_event(message, now), insert_outcome)

----------------------------------------------------------------------------
(* LLM completion client: TelegramAIAgent.ai_chat                          *)
(*                                                                         *)
(* The text of a completion is a sequence of tokens: "{" and "}", "txt"    *)
(* for prose, and one token per JSON member: "T" a title, "S1" and "S2" a  *)
(* start_time at IsoT1 and IsoT2, "E1" and "E2" an end_time at IsoT1 and   *)
(* IsoT2, "D" a description.                                               *)

IsoT1 == << 2, 14, 0, 0 >>

IsoT2 == << 2, 15, 0, 0 >>

S_Team_Meeting == <<"T","e","a","m"," ","M","e","e","t","i","n","g">>

S_Weekly_sync == <<"W","e","e","k","l","y"," ","s","y","n","c">>

MemberTokens == {"T", "S1", "S2", "E1", "E2", "D"}

MemberKey(tok) ==
    CASE tok = "T" -> "title"
      [] tok \in {"S1", "S2"} -> "start_time"
      [] tok \in {"E1", "E2"} -> "end_time"
      [] tok = "D" -> "description"

MemberValue(tok) ==
    CASE tok = "T" -> S_Team_Meeting
      [] tok \in {"S1", "E1"} -> IsoT1
      [] tok \in {"S2", "E2"} -> IsoT2
      [] tok = "D" -> S_Weekly_sync

SorryCouldNot == << "Sorry, I couldn't process your request." >>

SorryError == << "Sorry, there was an error processing your request." >>

\* The completions the endpoint is taken to return with status 200
Completions ==
    { << "{", "T", "S1", "E2", "}" >>,
      << "txt", "{", "T", "S1", "E2", "D", "}", "txt" >>,
      << "{", "T", "S1", "E1", "}" >>,
      << "{", "T", "S2", "E1", "}" >>,
      << "{", "T", "S1", "}" >>,
      << "{", "S1", "E2", "}" >>,
      << "{", "}" >>,
      << "{", "T", "txt", "E2", "}" >>,
      << "{", "T", "S1", "{", "E2", "}", "}" >>,
      << "txt" >>,
      << >> }

\* What client.post(...) does: it raises (transport error, timeout), answers
\* with another status than 200, answers 200 with a body that lacks
\* choices[0].message.content, or answers 200 with a completion.
HttpOutcomes ==
    { [kind |-> "raise",     content |-> <<>>, error |-> "ConnectTimeout"],
      [kind |-> "status",    content |-> <<>>, error |-> "AI API error: 500"],
      [kind |-> "malformed", content |-> <<>>, error |-> "KeyError: 'choices'"] }
    \cup { [kind |-> "ok", content |-> c, error |-> ""] : c \in Completions }

\* ai_chat with the reading of the body outside the try block: a body without
\* choices[0].message.content raises KeyError to the caller
ai_chat_unguarded(http) ==
    CASE http.kind = "ok" ->
            [response |-> http.content, model |-> "ionos_model", success |-> TRUE]
      [] http.kind = "status" ->
            [error |-> http.error, response |-> SorryCouldNot]
      [] http.kind = "malformed" ->
            [raised |-> http.error]
      [] OTHER ->
            [error |-> http.error, response |-> SorryError]

ai_chat(http) ==
    CASE http.kind = "ok" ->
            [response |-> http.content, model |-> "ionos_model", success |-> TRUE]
      [] http.kind = "status" ->
            [error |-> http.error, response |-> SorryCouldNot]
      [] OTHER ->
            [error |-> http.error, response |-> SorryError]

NoEnvelope == [none |-> TRUE]

----------------------------------------------------------------------------
(* Structured extractor: TelegramAIAgent.handle_calendar_creation          *)

\* from the first "{" to the first "}" after it
json_span(text, open, closes) ==
    IF closes = {} THEN NoMatch
    ELSE [start |-> open, groups |-> << SubSeq(text, open + 1, SetMin(closes) - 1) >>]

json_from(text, open) ==
    json_span(text, open, {j \in 1..Len(text) : j > open /\ text[j] = "}"})

json_open(text, opens) ==
    IF opens = {} THEN NoMatch ELSE json_from(text, SetMin(opens))

\* re.search(r'\{[^}]*\}', text, re.DOTALL): the members between the braces,
\* or None
re_json(text) == json_open(text, {i \in 1..Len(text) : text[i] = "{"})

\* the value of the last member with this key
member_value(members, key) ==
    MemberValue(members[SetMax({i \in 1..Len(members) : MemberKey(members[i]) = key})])

\* json.loads of the matched text: a dict of its members (the last of two
\* members with one key wins), or JSONDecodeError when anything but members
\* stands between the braces
json_loads(members) ==
    IF \E i \in 1..Len(members) : members[i] \notin MemberTokens
    THEN [ok |-> FALSE, value |-> <<>>]
    ELSE [ok |-> TRUE,
          value |-> [key \in {MemberKey(members[i]) : i \in 1..Len(members)} |->
                        member_value(members, key)]]

\* json.loads(json_match.group()) when the search matched
parse_match(json_match) ==
    IF json_match.start > 0
    THEN json_loads(group(json_match, 1))
    ELSE [ok |-> FALSE, value |-> <<>>]

\* The reply for the result of create_calendar_event on the LLM's event
llm_reply(event_details, created, envelope) ==
    [response |->
         IF Succeeded(created.result)
         THEN << Lit("[OK] **Event Created Successfully!**"),
                 Val("title", event_details["title"]),
                 Lit("[clock] "),
                 Val("time", event_details["start_time"]),
                 Lit(" - "),
                 Val("time", event_details["end_time"]),
                 Lit("[View in Google Calendar]"),
                 Val("link", Get(created.result, "html_link", "#")) >>
         ELSE << Lit("[X] Failed to create event: "),
                 Val("error", Get(created.result, "error", "Unknown error")) >>,
     draft |-> event_details,
     calls |-> << [op |-> "llm.post"] >> \o created.calls,
     ai |-> envelope,
     via |-> "llm"]

\* validated_event with a failed insert tried a second time
validated_event_retried(event_details, envelope, insert_outcome) ==
    IF ~({"title", "start_time", "end_time"} \subseteq DOMAIN event_details)
    THEN [response |-> << Lit("[X] Could not parse event details. Please be more specific with date, time, and title.") >>,
          draft |-> NoDraft,
          calls |-> << [op |-> "llm.post"] >>,
          ai |-> envelope,
          via |-> "llm"]
    ELSE IF insert_outcome.ok
    THEN llm_reply(event_details,
                   create_calendar_event(event_details, insert_outcome), envelope)
    ELSE [llm_reply(event_details,
                    create_calendar_event(event_details, insert_outcome), envelope)
              EXCEPT !.calls = @ \o create_calendar_event(event_details, insert_outcome).calls]

\* "Validate required fields", then the create call
validated_event(event_details, envelope, insert_outcome) ==
    IF ~({"title", "start_time", "end_time"} \subseteq DOMAIN event_details)
    THEN [response |-> << Lit("[X] Could not parse event details. Please be more specific with date, time, and title.") >>,
          draft |-> NoDraft,
          calls |-> << [op |-> "llm.post"] >>,
          ai |-> envelope,
          via |-> "llm"]
    ELSE llm_reply(event_details,
                   create_calendar_event(event_details, insert_outcome), envelope)

\* "Fallback to manual parsing if AI fails"
fallback_event(fallback, envelope) ==
    [response |-> fallback.response,
     draft |-> fallback.draft,
     calls |-> << [op |-> "llm.post"] >> \o fallback.calls,
     ai |-> envelope,
     via |-> "fallback"]

\* extract_event without the fallback: a completion without a JSON object
\* that parses is answered like an object without its fields
extract_event_no_fallback(message, envelope, parsed, now, insert_outcome) ==
    IF parsed.ok
    THEN validated_event(parsed.value, envelope, insert_outcome)
    ELSE validated_event(<< >>, envelope, insert_outcome)

\* What follows the completion: the JSON path when a JSON object is found
\* and parses, the fallback otherwise
extract_event(message, envelope, parsed, now, insert_outcome) ==
    IF parsed.ok
    THEN validated_event(parsed.value, envelope, insert_outcome)
    ELSE fallback_event(parse_event_manually(message, now, insert_outcome), envelope)

event_from_envelope(message, envelope, now, insert_outcome) ==
    extract_event(message, envelope,
                  parse_match(re_json(Get(envelope, "response", << "{", "}" >>))),
                  now, insert_outcome)

handle_calendar_creation(intent_, http, now, insert_outcome) ==
    event_from_envelope(Get(intent_, "title", Get(intent_, "query", <<>>)),
                        ai_chat(http), now, insert_outcome)

----------------------------------------------------------------------------
(* Command dispatcher: the other handlers and their collaborators          *)

MaxEmails == 1
MaxEvents == 1
MaxTasks == 1
GmailSearchLimit == 3
CalendarViewLimit == 5

\* What a list call of a Google service does: it raises, or returns n items.
\* Every recorded call of a Google service says whether it raised.
ListOutcomes(max) ==
    { [ok |-> FALSE, n |-> 0, error |-> "HttpError 500"] }
    \cup { [ok |-> TRUE, n |-> n, error |-> ""] : n \in 0..max }

\* search_gmail(query, max_results)
search_gmail(query, max_results, outcome) ==
    IF ~outcome.ok THEN [error |-> outcome.error]
    ELSE IF outcome.n = 0 THEN [results |-> <<>>, message |-> "No messages found"]
    ELSE [results |-> [i \in 1..outcome.n |-> [id |-> i]], count |-> outcome.n]

handle_gmail_search_unchecked(query, outcome) ==
    LET results == search_gmail(query, GmailSearchLimit, outcome)
        call == [op |-> "gmail.messages.list", q |-> query,
                 maxResults |-> GmailSearchLimit, raised |-> ~outcome.ok]
    IN  IF Get(results, "results", <<>>) = <<>>
        THEN [response |-> << Lit("[mailbox] No emails found matching your search.") >>,
              calls |-> << call >>]
        ELSE [response |-> << Lit("[mail] **Found "), Val("count", Len(results["results"])),
                              Lit(" emails:**") >>
                           \o [i \in 1..Len(results["results"]) |->
                                   Val("email", results["results"][i].id)],
              calls |-> << call >>]

handle_gmail_search(query, outcome) ==
    LET results == search_gmail(query, GmailSearchLimit, outcome)
        call == [op |-> "gmail.messages.list", q |-> query,
                 maxResults |-> GmailSearchLimit, raised |-> ~outcome.ok]
    IN  IF "error" \in DOMAIN results
        THEN [response |-> << Lit("[X] Gmail Error: "), Val("error", results["error"]) >>,
              calls |-> << call >>]
        ELSE IF Get(results, "results", <<>>) = <<>>
        THEN [response |-> << Lit("[mailbox] No emails found matching your search.") >>,
              calls |-> << call >>]
        ELSE [response |-> << Lit("[mail] **Found "), Val("count", Len(results["results"])),
                              Lit(" emails:**") >>
                           \o [i \in 1..Len(results["results"]) |->
                                   Val("email", results["results"][i].id)],
              calls |-> << call >>]

\* json.dumps and json.loads of what the list wrappers return: a list is
\* decoded as a list and a dict as a dict
json_dumps(kind, value) == [json |-> kind, text |-> value]

json_decode(s) == [type |-> s.json, value |-> s.text]

\* Python's "'error' in x": a key of a dict, an element of a list
has_error(x) ==
    IF x.type = "dict" THEN "error" \in DOMAIN x.value ELSE FALSE

\* get_calendar_events(max_results)
get_calendar_events(max_results, outcome) ==
    IF outcome.ok
    THEN json_dumps("list", [i \in 1..outcome.n |-> [summary |-> i]])
    ELSE json_dumps("dict", [error |-> outcome.error])

handle_calendar_view(outcome) ==
    LET events == json_decode(get_calendar_events(CalendarViewLimit, outcome))
        call == [op |-> "calendar.events.list", maxResults |-> CalendarViewLimit,
                 raised |-> ~outcome.ok]
    IN  IF has_error(events)
        THEN [response |-> << Lit("[X] Calendar Error: "), Val("error", events.value["error"]) >>,
              calls |-> << call >>]
        ELSE IF events.value = <<>>
        THEN [response |-> << Lit("[cal] No upcoming events found.") >>, calls |-> << call >>]
        ELSE [response |-> << Lit("[cal] **Upcoming Events:**") >>
                           \o [i \in 1..Len(events.value) |->
                                   Val("event", events.value[i].summary)],
              calls |-> << call >>]

\* get_task_lists(): one list holding n tasks, or the error
get_task_lists(outcome) ==
    IF outcome.ok
    THEN json_dumps("list", << [list_name |-> "My Tasks",
                                tasks |-> [i \in 1..outcome.n |-> [title |-> i]]] >>)
    ELSE json_dumps("dict", [error |-> outcome.error])

handle_tasks_view(outcome) ==
    LET task_data == json_decode(get_task_lists(outcome))
        call == [op |-> "tasks.tasklists.list", raised |-> ~outcome.ok]
    IN  IF has_error(task_data)
        THEN [response |-> << Lit("[X] Tasks Error: "), Val("error", task_data.value["error"]) >>,
              calls |-> << call >>]
        ELSE \* the header holds the check mark, so the response is returned as built
             [response |-> << Lit("[OK] **Your Tasks:**") >>
                           \o [i \in 1..Len(task_data.value[1].tasks) |->
                                   Val("task", task_data.value[1].tasks[i].title)],
              calls |-> << call >>]

\* What create_task meets: tasklists().list() raises or names no list, the
\* insert raises, or the task is created
TaskOutcomes ==
    { [ok |-> FALSE, inserted |-> FALSE, error |-> "HttpError 500"],
      [ok |-> FALSE, inserted |-> TRUE,  error |-> "HttpError 403"],
      [ok |-> TRUE,  inserted |-> TRUE,  error |-> ""] }

create_task(task_data, outcome) ==
    LET insert == [op |-> "tasks.tasks.insert", title |-> task_data["title"],
                   raised |-> ~outcome.ok]
        lists == [op |-> "tasks.tasklists.list", raised |-> ~outcome.inserted]
    IN  IF outcome.ok
        THEN [result |-> [success |-> TRUE, task_id |-> "task",
                          message |-> "Task created successfully"],
              calls |-> << lists, insert >>]
        ELSE [result |-> [error |-> outcome.error],
              calls |-> IF outcome.inserted THEN << lists, insert >> ELSE << lists >>]

\* task_reply without the test of the title: an empty title is created too
task_reply_unvalidated(task_title, created) ==
    [response |->
         IF Succeeded(created.result)
         THEN << Lit("[OK] Task created: "), Val("title", task_title) >>
         ELSE << Lit("[X] Error creating task: "),
                 Val("error", Get(created.result, "error", "Unknown error")) >>,
     calls |-> created.calls]

\* The reply for the stripped title
task_reply(task_title, created) ==
    IF task_title = <<>>
    THEN [response |-> << Lit("[X] Please specify a task title.") >>, calls |-> <<>>]
    ELSE [response |->
              IF Succeeded(created.result)
              THEN << Lit("[OK] Task created: "), Val("title", task_title) >>
              ELSE << Lit("[X] Error creating task: "),
                      Val("error", Get(created.result, "error", "Unknown error")) >>,
          calls |-> created.calls]

create_for_title(task_title, outcome) ==
    task_reply(task_title, create_task([title |-> task_title], outcome))

\* intent.get('title', '').replace('add task', '').replace('task:', '').strip()
task_title_of(intent_) ==
    strip(replace(replace(Get(intent_, "title", <<>>), S_add_task, <<>>),
                  S_task_colon, <<>>))

handle_task_creation(intent_, outcome) ==
    create_for_title(task_title_of(intent_), outcome)

\* The reply is the envelope's response
chat_reply(envelope, text) ==
    [response |-> [i \in 1..Len(text) |-> Val("llm", text[i])],
     calls |-> << [op |-> "llm.post"] >>,
     ai |-> envelope]

chat_from(envelope) ==
    chat_reply(envelope,
               Get(envelope, "response", << "Sorry, I could not process your request." >>))

\* The last branch of telegram_message
handle_chat(http) == chat_from(ai_chat(http))

----------------------------------------------------------------------------
(* Message texts                                                           *)

\* 'Team sync tomorrow at 14:30 for 2 hours'
Msg_TeamSync == <<"T","e","a","m"," ","s","y","n","c"," ","t","o","m","o","r","r","o","w"," ","a","t"," ","1","4",":","3","0"," ","f","o","r"," ","2"," ","h","o","u","r","s">>

\* 'quick chat'
Msg_QuickChat == <<"q","u","i","c","k"," ","c","h","a","t">>

\* 'call at 9pm'
Msg_Call9pm == <<"c","a","l","l"," ","a","t"," ","9","p","m">>

\* 'call at 12am'
Msg_Call12am == <<"c","a","l","l"," ","a","t"," ","1","2","a","m">>

\* 'call at 12pm'
Msg_Call12pm == <<"c","a","l","l"," ","a","t"," ","1","2","p","m">>

\* 'sync for 0 hours'
Msg_SyncZeroHours == <<"s","y","n","c"," ","f","o","r"," ","0"," ","h","o","u","r","s">>

\* ''
Msg_Empty == << >>

\* '  '
Msg_Blank == <<" "," ">>

\* "event at 25 o'clock"
Msg_Oclock25 == <<"e","v","e","n","t"," ","a","t"," ","2","5"," ","o","'","c","l","o","c","k">>

\* 'plan 99am'
Msg_99am == <<"p","l","a","n"," ","9","9","a","m">>

\* 'Meeting at 3 oclock'
Msg_Oclock3 == <<"M","e","e","t","i","n","g"," ","a","t"," ","3"," ","o","c","l","o","c","k">>

\* 'meeting at 14:30'
Msg_MeetingAt1430 == <<"m","e","e","t","i","n","g"," ","a","t"," ","1","4",":","3","0">>

\* 'meeting for 0 hours'
Msg_MeetingZeroHours == <<"m","e","e","t","i","n","g"," ","f","o","r"," ","0"," ","h","o","u","r","s">>

\* 'Team Meeting tomorrow'
Msg_MeetingTomorrow == <<"T","e","a","m"," ","M","e","e","t","i","n","g"," ","t","o","m","o","r","r","o","w">>

\* 'meeting online'
Msg_MeetingOnline == <<"m","e","e","t","i","n","g"," ","o","n","l","i","n","e">>

\* 'meeting next week'
Msg_MeetingNextWeek == <<"m","e","e","t","i","n","g"," ","n","e","x","t"," ","w","e","e","k">>

\* 'Meeting today at 5pm for 3 hrs'
Msg_MeetingToday5pm == <<"M","e","e","t","i","n","g"," ","t","o","d","a","y"," ","a","t"," ","5","p","m"," ","f","o","r"," ","3"," ","h","r","s">>

\* 'plan today next week'
Msg_TodayNextWeek == <<"p","l","a","n"," ","t","o","d","a","y"," ","n","e","x","t"," ","w","e","e","k">>

\* 'Book the big room now'
Msg_BookRoom == <<"B","o","o","k"," ","t","h","e"," ","b","i","g"," ","r","o","o","m"," ","n","o","w">>

\* ' plan  a\ttrip '
Msg_PlanTrip == <<" ","p","l","a","n"," "," ","a","	","t","r","i","p"," ">>

\* ' at 5pm meeting'
Msg_At5pmMeeting == <<" ","a","t"," ","5","p","m"," ","m","e","e","t","i","n","g">>

\* 'plan\nreview at 5pm'
Msg_PlanNewline == <<"p","l","a","n","\n","r","e","v","i","e","w"," ","a","t"," ","5","p","m">>

\* 'plan 10pm for 23 hours'
Msg_Plan23Hours == <<"p","l","a","n"," ","1","0","p","m"," ","f","o","r"," ","2","3"," ","h","o","u","r","s">>

\* 'Schedule a meeting for Friday'
Msg_ScheduleFriday == <<"S","c","h","e","d","u","l","e"," ","a"," ","m","e","e","t","i","n","g"," ","f","o","r"," ","F","r","i","d","a","y">>

\* 'mail me the schedule'
Msg_MailSchedule == <<"m","a","i","l"," ","m","e"," ","t","h","e"," ","s","c","h","e","d","u","l","e">>

\* 'Search for emails about project Alpha'
Msg_SearchAlpha == <<"S","e","a","r","c","h"," ","f","o","r"," ","e","m","a","i","l","s"," ","a","b","o","u","t"," ","p","r","o","j","e","c","t"," ","A","l","p","h","a">>

\* 'INBOX'
Msg_Inbox == <<"I","N","B","O","X">>

\* 'show my calendar'
Msg_Calendar == <<"s","h","o","w"," ","m","y"," ","c","a","l","e","n","d","a","r">>

\* "what's on"
Msg_WhatsOn == <<"w","h","a","t","'","s"," ","o","n">>

\* 'events'
Msg_Events == <<"e","v","e","n","t","s">>

\* 'meetings today'
Msg_MeetingsToday == <<"m","e","e","t","i","n","g","s"," ","t","o","d","a","y">>

\* 'add task'
Msg_AddTask == <<"a","d","d"," ","t","a","s","k">>

\* 'Add task: Review documents'
Msg_AddTaskReview == <<"A","d","d"," ","t","a","s","k",":"," ","R","e","v","i","e","w"," ","d","o","c","u","m","e","n","t","s">>

\* 'task: buy milk'
Msg_TaskColonBuy == <<"t","a","s","k",":"," ","b","u","y"," ","m","i","l","k">>

\* 'my tasks'
Msg_MyTasks == <<"m","y"," ","t","a","s","k","s">>

\* 'todo list'
Msg_TodoList == <<"t","o","d","o"," ","l","i","s","t">>

\* 'I need to call John'
Msg_NeedTo == <<"I"," ","n","e","e","d"," ","t","o"," ","c","a","l","l"," ","J","o","h","n">>

\* 'hello there'
Msg_Hello == <<"h","e","l","l","o"," ","t","h","e","r","e">>

Examples ==
    { Msg_TeamSync,
      Msg_QuickChat,
      Msg_Call9pm,
      Msg_Call12am,
      Msg_Call12pm,
      Msg_SyncZeroHours,
      Msg_Empty,
      Msg_Blank,
      Msg_Oclock25,
      Msg_99am,
      Msg_Oclock3,
      Msg_MeetingAt1430,
      Msg_MeetingZeroHours,
      Msg_MeetingTomorrow,
      Msg_MeetingOnline,
      Msg_MeetingNextWeek,
      Msg_MeetingToday5pm,
      Msg_TodayNextWeek,
      Msg_BookRoom,
      Msg_PlanTrip,
      Msg_At5pmMeeting,
      Msg_PlanNewline,
      Msg_Plan23Hours,
      Msg_ScheduleFriday,
      Msg_MailSchedule,
      Msg_SearchAlpha,
      Msg_Inbox,
      Msg_Calendar,
      Msg_WhatsOn,
      Msg_Events,
      Msg_MeetingsToday,
      Msg_AddTask,
      Msg_AddTaskReview,
      Msg_TaskColonBuy,
      Msg_MyTasks,
      Msg_TodoList,
      Msg_NeedTo,
      Msg_Hello }

\* The words of the generated messages: one keyword of the mail, event-creation
\* and calendar-view sets, and one that is both a task-creation and a task-view keyword
Vocabulary ==
    << <<"m","a","i","l">>,
       <<"p","l","a","n">>,
       <<"a","g","e","n","d","a">>,
       <<"t","a","s","k","s">> >>
MaxWords == 2

\* The messages of at most MaxWords words of the vocabulary, joined by spaces
WordLists == UNION { [1..n -> 1..Len(Vocabulary)] : n \in 0..MaxWords }

Generated == { join(S_space, [i \in 1..Len(ws) |-> Vocabulary[ws[i]]]) : ws \in WordLists }

Messages == Examples \cup Generated

\* datetime.now(): a late evening with seconds and microseconds, and midnight
Now_Evening == [day |-> 5, hour |-> 23, minute |-> 59, second |-> 58, microsecond |-> 999]

Now_Midnight == [day |-> 5, hour |-> 0, minute |-> 0, second |-> 0, microsecond |-> 0]

Nows == { Now_Evening, Now_Midnight }

----------------------------------------------------------------------------
(* HTTP webhook: handle_message of src/app.py                              *)

\* What analyze_message returns: it raises (the request fails, or eval of
\* the completion fails), or it returns the evaluated dict
WebhookParses ==
    { [ok |-> FALSE, value |-> [error |-> "HTTPError"]] }
    \cup { [ok |-> TRUE,
            value |-> [intent |-> i, title |-> S_Team_Meeting, date |-> 2, time |-> << 14, 30 >>]]
           : i \in {"task", "event", "chat"} }
    \cup { [ok |-> TRUE, value |-> [intent |-> "event", title |-> S_Team_Meeting]] }

\* f"{date}T{time}:00"
webhook_timestamp(date, time) == << date, time[1], time[2], 0 >>

handle_message(text, parse, insert_outcome) ==
    LET parsed == parse.value
        failed == [response |-> << Lit("[X] Error processing your message") >>,
                   draft |-> NoDraft, calls |-> << [op |-> "llm.post"] >>]
    IN  IF ~parse.ok \/ ~({"intent", "title", "date", "time"} \subseteq DOMAIN parsed)
        THEN failed
        ELSE IF parsed["intent"] = "task"
        THEN LET call == [op |-> "tasks.tasks.insert", title |-> parsed["title"],
                          raised |-> ~insert_outcome.ok]
             IN  IF insert_outcome.ok
                 THEN [response |-> << Lit("[OK] Task created: "), Val("title", parsed["title"]) >>,
                       draft |-> NoDraft, calls |-> << [op |-> "llm.post"], call >>]
                 ELSE [failed EXCEPT !.calls = << [op |-> "llm.post"], call >>]
        ELSE IF parsed["intent"] = "event"
        THEN LET event == [title      |-> parsed["title"],
                           start_time |-> webhook_timestamp(parsed["date"], parsed["time"]),
                           end_time   |-> webhook_timestamp(parsed["date"], parsed["time"])]
                 call == [op      |-> "calendar.events.insert",
                          summary |-> event["title"],
                          start   |-> event["start_time"],
                          end     |-> event["end_time"],
                          raised  |-> ~insert_outcome.ok]
             IN  IF insert_outcome.ok
                 THEN [response |-> << Lit("[cal] Event added: "), Val("title", parsed["title"]) >>,
                       draft |-> event, calls |-> << [op |-> "llm.post"], call >>]
                 ELSE [failed EXCEPT !.draft = event,
                                     !.calls = << [op |-> "llm.post"], call >>]
        ELSE [response |-> << Lit("[?] Could not determine intent") >>,
              draft |-> NoDraft, calls |-> << [op |-> "llm.post"] >>]

----------------------------------------------------------------------------
(* The agent                                                               *)

NoIntent == [action |-> "none"]

NoClock == [none |-> TRUE]

\* The fields of TelegramAIAgent once run() has authenticated and set up the bot
AgentReady ==
    [telegram_app     |-> "application",
     google_creds     |-> "credentials",
     gmail_service    |-> "gmail v1",
     calendar_service |-> "calendar v3",
     tasks_service    |-> "tasks v1",
     ionos_model      |-> "meta-llama/Llama-3.3-70B-Instruct",
     user_contexts    |-> << >>]

Apology == << Lit("[X] Sorry, I encountered an error processing your message.") >>

\* The turn's variables as a new message finds them
NewTurn(kind, text) ==
    /\ transport' = kind
    /\ user_message' = text
    /\ clock' = NoClock
    /\ intent' = NoIntent
    /\ ai_response' = NoEnvelope
    /\ draft' = NoDraft
    /\ calls' = <<>>
    /\ response' = <<>>
    /\ replies' = <<>>

Init ==
    /\ pc = "idle"
    /\ transport = "none"
    /\ user_message = <<>>
    /\ clock = NoClock
    /\ intent = NoIntent
    /\ ai_response = NoEnvelope
    /\ draft = NoDraft
    /\ calls = <<>>
    /\ response = <<>>
    /\ replies = <<>>
    /\ first = <<>>
    /\ agent = AgentReady

\* The texts whose first classification the history keeps
TrackedTexts ==
    { Msg_MailSchedule, Msg_ScheduleFriday, Msg_Calendar, Msg_AddTask,
      Msg_MyTasks, Msg_Hello }

\* telegram_message is called with a text message
ReceiveMessage ==
    /\ pc = "idle"
    /\ \E text \in Messages : NewTurn("telegram", text)
    /\ pc' = "typing"
    /\ UNCHANGED << first, agent >>

\* context.bot.send_chat_action, outside the try block
SendChatAction ==
    /\ pc = "typing"
    /\ \E sent \in BOOLEAN : pc' = IF sent THEN "classify" ELSE "raised"
    /\ UNCHANGED << transport, user_message, clock, intent, ai_response, draft,
                    calls, response, replies, first, agent >>

\* intent = await self.analyze_intent(user_message)
Classify ==
    /\ pc = "classify"
    /\ intent' = analyze_intent(user_message)
    /\ first' = IF first = <<>> /\ user_message \in TrackedTexts
                THEN << [msg |-> user_message, intent |-> intent', again |-> FALSE] >>
                ELSE IF first # <<>> /\ first[1].msg = user_message
                THEN << [first[1] EXCEPT !.again = TRUE] >>
                ELSE first
    /\ pc' = "dispatch"
    /\ UNCHANGED << transport, user_message, clock, ai_response, draft,
                    calls, response, replies, agent >>

\* What a handler hands back to telegram_message
Handled(result, envelope, event, now) ==
    /\ response' = result.response
    /\ calls' = result.calls
    /\ ai_response' = envelope
    /\ draft' = event
    /\ clock' = now

HandledEvent(result, now) == Handled(result, result.ai, result.draft, now)

HandledChat(result) == Handled(result, result.ai, NoDraft, NoClock)

\* The if/elif chain of telegram_message on intent['action']
Dispatch ==
    /\ pc = "dispatch"
    /\ CASE intent.action = "search_gmail" ->
                \E o \in ListOutcomes(MaxEmails) :
                    Handled(handle_gmail_search(intent.query, o), NoEnvelope, NoDraft, NoClock)
         [] intent.action = "create_calendar_event" ->
                \E http \in HttpOutcomes, now \in Nows, o \in InsertOutcomes :
                    HandledEvent(handle_calendar_creation(intent, http, now, o), now)
         [] intent.action = "create_task" ->
                \E o \in TaskOutcomes :
                    Handled(handle_task_creation(intent, o), NoEnvelope, NoDraft, NoClock)
         [] intent.action = "get_calendar" ->
                \E o \in ListOutcomes(MaxEvents) :
                    Handled(handle_calendar_view(o), NoEnvelope, NoDraft, NoClock)
         [] intent.action = "get_tasks" ->
                \E o \in ListOutcomes(MaxTasks) :
                    Handled(handle_tasks_view(o), NoEnvelope, NoDraft, NoClock)
         [] OTHER ->
                \E http \in HttpOutcomes :
                    HandledChat(handle_chat(http))
    /\ pc' = "reply"
    /\ UNCHANGED << transport, user_message, intent, replies, first, agent >>

\* update.message.reply_text(response, parse_mode='Markdown'), inside the try
Reply ==
    /\ pc = "reply"
    /\ \E sent \in BOOLEAN :
           /\ pc' = IF sent THEN "done" ELSE "apologise"
           /\ replies' = IF sent THEN Append(replies, response) ELSE replies
    /\ UNCHANGED << transport, user_message, clock, intent, ai_response, draft,
                    calls, response, first, agent >>

\* the except branch: reply_text with the apology, which may raise in turn
Apologise ==
    /\ pc = "apologise"
    /\ \E sent \in BOOLEAN :
           /\ pc' = IF sent THEN "done" ELSE "raised"
           /\ replies' = IF sent THEN Append(replies, Apology) ELSE replies
    /\ UNCHANGED << transport, user_message, clock, intent, ai_response, draft,
                    calls, response, first, agent >>

\* What handle_message returns to Flask
WebhookHandled(text, parse, result) ==
    /\ transport' = "webhook"
    /\ user_message' = text
    /\ clock' = NoClock
    /\ intent' = NoIntent
    /\ ai_response' = IF parse.ok THEN [response |-> parse.value]
                      ELSE [error |-> parse.value["error"]]
    /\ draft' = result.draft
    /\ calls' = result.calls
    /\ response' = result.response
    /\ replies' = << result.response >>

WebhookTexts == { Msg_TeamSync, Msg_AddTaskReview }

\* POST /message of the webhook: the whole of handle_message
HandleWebhook ==
    /\ pc = "idle"
    /\ \E text \in WebhookTexts, parse \in WebhookParses, o \in InsertOutcomes :
           WebhookHandled(text, parse, handle_message(text, parse, o))
    /\ pc' = "done"
    /\ UNCHANGED << first, agent >>

\* The handler returns, or the exception it raised leaves it; the next
\* update finds no trace of the turn
Return ==
    /\ pc \in {"done", "raised"}
    /\ NewTurn("none", <<>>)
    /\ pc' = "idle"
    /\ UNCHANGED << first, agent >>

Next ==
    \/ ReceiveMessage
    \/ SendChatAction
    \/ Classify
    \/ Dispatch
    \/ Reply
    \/ Apologise
    \/ HandleWebhook
    \/ Return

Spec == Init /\ [][Next]_vars

----------------------------------------------------------------------------
(* The components called directly on drawn inputs                          *)

UnitInit ==
    /\ pc = "unit"
    /\ transport = "unit"
    /\ user_message \in Messages
    /\ clock \in Nows
    /\ intent = NoIntent
    /\ ai_response = NoEnvelope
    /\ draft = NoDraft
    /\ calls = <<>>
    /\ response = <<>>
    /\ replies = <<>>
    /\ first = <<>>
    /\ agent = AgentReady

UnitDone(name, result, envelope, event) ==
    /\ pc' = name
    /\ response' = result.response
    /\ calls' = result.calls
    /\ ai_response' = envelope
    /\ draft' = event
    /\ UNCHANGED << transport, user_message, clock, replies, first, agent >>

UnitDoneEvent(name, result, envelope) == UnitDone(name, result, envelope, result.draft)

UnitDoneExtract(name, result) == UnitDone(name, result, result.ai, result.draft)

\* parse_event_manually(message)
UnitFallback ==
    /\ pc = "unit"
    /\ intent' = NoIntent
    /\ \E o \in InsertOutcomes :
           UnitDoneEvent("parse_event_manually",
                         parse_event_manually(user_message, clock, o), NoEnvelope)

\* handle_calendar_creation(intent) on the intent analyze_intent builds for an event
UnitCalendarCreation ==
    /\ pc = "unit"
    /\ intent' = [action |-> "create_calendar_event",
                  title |-> user_message, query |-> user_message]
    /\ \E http \in HttpOutcomes, o \in InsertOutcomes :
           UnitDoneExtract("handle_calendar_creation",
                           handle_calendar_creation(intent', http, clock, o))

\* handle_gmail_search(query)
UnitGmailSearch ==
    /\ pc = "unit"
    /\ intent' = [action |-> "search_gmail", query |-> user_message]
    /\ \E o \in ListOutcomes(MaxEmails) :
           UnitDone("handle_gmail_search", handle_gmail_search(user_message, o),
                    NoEnvelope, NoDraft)

\* handle_task_creation(intent)
UnitTaskCreation ==
    /\ pc = "unit"
    /\ intent' = [action |-> "create_task", title |-> user_message]
    /\ \E o \in TaskOutcomes :
           UnitDone("handle_task_creation", handle_task_creation(intent', o),
                    NoEnvelope, NoDraft)

\* handle_calendar_view()
UnitCalendarView ==
    /\ pc = "unit"
    /\ intent' = [action |-> "get_calendar"]
    /\ \E o \in ListOutcomes(MaxEvents) :
           UnitDone("handle_calendar_view", handle_calendar_view(o), NoEnvelope, NoDraft)

\* handle_tasks_view()
UnitTasksView ==
    /\ pc = "unit"
    /\ intent' = [action |-> "get_tasks"]
    /\ \E o \in ListOutcomes(MaxTasks) :
           UnitDone("handle_tasks_view", handle_tasks_view(o), NoEnvelope, NoDraft)

\* ai_chat(message, context): the post is recorded with what it met
UnitAiChat ==
    /\ pc = "unit"
    /\ intent' = NoIntent
    /\ \E http \in HttpOutcomes :
           UnitDone("ai_chat",
                    [response |-> << >>,
                     calls |-> << [op |-> "llm.post", kind |-> http.kind,
                                   content |-> http.content] >>],
                    ai_chat(http), NoDraft)

UnitNext ==
    \/ UnitFallback
    \/ UnitCalendarCreation
    \/ UnitGmailSearch
    \/ UnitTaskCreation
    \/ UnitCalendarView
    \/ UnitTasksView
    \/ UnitAiChat

SpecUnit == UnitInit /\ [][UnitNext]_vars

----------------------------------------------------------------------------
(* Two message turns of one agent, interleaved at every await              *)
(*                                                                         *)
(* Each variable of a turn holds a pair, one value per turn; agent is the  *)
(* one TelegramAIAgent object both turns run on.                           *)

Turns == {1, 2}

PairTexts ==
    { Msg_MailSchedule, Msg_MeetingTomorrow, Msg_TaskColonBuy, Msg_Calendar, Msg_Hello }

\* The one reading of datetime.now() the turns are given
PairNows == { Now_Evening }

\* telegram_message with the agent fields written back: the text of the
\* turn is kept in user_contexts under its chat
agent_remembering_turn(agent_, chat_id, text) ==
    [agent_ EXCEPT !.user_contexts = Append(@, [chat |-> chat_id, text |-> text])]

\* The fields of the agent after a step of telegram_message for a chat:
\* chat_id, user_id and context_info are locals, and no field of self is
\* assigned
agent_after_turn(agent_, chat_id, text) == agent_

PairInit ==
    /\ pc = << "typing", "typing" >>
    /\ transport = << "telegram", "telegram" >>
    /\ user_message \in PairTexts \X PairTexts
    /\ clock = << NoClock, NoClock >>
    /\ intent = << NoIntent, NoIntent >>
    /\ ai_response = << NoEnvelope, NoEnvelope >>
    /\ draft = << NoDraft, NoDraft >>
    /\ calls = << << >>, << >> >>
    /\ response = << << >>, << >> >>
    /\ replies = << << >>, << >> >>
    /\ first = << >>
    /\ agent = AgentReady

\* A step of turn t leaves the agent as telegram_message leaves it
PairStep(t, next) ==
    /\ pc' = [pc EXCEPT ![t] = next]
    /\ agent' = agent_after_turn(agent, t, user_message[t])
    /\ UNCHANGED << transport, user_message, first >>

\* context.bot.send_chat_action of turn t
PairSendChatAction(t) ==
    /\ pc[t] = "typing"
    /\ \E sent \in BOOLEAN : PairStep(t, IF sent THEN "classify" ELSE "raised")
    /\ UNCHANGED << clock, intent, ai_response, draft, calls, response, replies >>

\* analyze_intent of turn t
PairClassify(t) ==
    /\ pc[t] = "classify"
    /\ intent' = [intent EXCEPT ![t] = analyze_intent(user_message[t])]
    /\ PairStep(t, "dispatch")
    /\ UNCHANGED << clock, ai_response, draft, calls, response, replies >>

\* What a handler hands back to turn t
PairHandled(t, result, envelope, event, now) ==
    /\ response' = [response EXCEPT ![t] = result.response]
    /\ calls' = [calls EXCEPT ![t] = result.calls]
    /\ ai_response' = [ai_response EXCEPT ![t] = envelope]
    /\ draft' = [draft EXCEPT ![t] = event]
    /\ clock' = [clock EXCEPT ![t] = now]

PairHandledEvent(t, result, now) == PairHandled(t, result, result.ai, result.draft, now)

PairHandledChat(t, result) == PairHandled(t, result, result.ai, NoDraft, NoClock)

\* The if/elif chain of telegram_message for turn t
PairDispatch(t) ==
    /\ pc[t] = "dispatch"
    /\ CASE intent[t].action = "search_gmail" ->
                \E o \in ListOutcomes(MaxEmails) :
                    PairHandled(t, handle_gmail_search(intent[t].query, o),
                                NoEnvelope, NoDraft, NoClock)
         [] intent[t].action = "create_calendar_event" ->
                \E http \in HttpOutcomes, now \in PairNows, o \in InsertOutcomes :
                    PairHandledEvent(t, handle_calendar_creation(intent[t], http, now, o), now)
         [] intent[t].action = "create_task" ->
                \E o \in TaskOutcomes :
                    PairHandled(t, handle_task_creation(intent[t], o),
                                NoEnvelope, NoDraft, NoClock)
         [] intent[t].action = "get_calendar" ->
                \E o \in ListOutcomes(MaxEvents) :
                    PairHandled(t, handle_calendar_view(o), NoEnvelope, NoDraft, NoClock)
         [] intent[t].action = "get_tasks" ->
                \E o \in ListOutcomes(MaxTasks) :
                    PairHandled(t, handle_tasks_view(o), NoEnvelope, NoDraft, NoClock)
         [] OTHER ->
                \E http \in HttpOutcomes :
                    PairHandledChat(t, handle_chat(http))
    /\ PairStep(t, "reply")
    /\ UNCHANGED << intent, replies >>

\* reply_text of turn t, inside the try
PairReply(t) ==
    /\ pc[t] = "reply"
    /\ \E sent \in BOOLEAN :
           /\ PairStep(t, IF sent THEN "done" ELSE "apologise")
           /\ replies' = [replies EXCEPT ![t] = IF sent THEN Append(@, response[t]) ELSE @]
    /\ UNCHANGED << clock, intent, ai_response, draft, calls, response >>

\* the except branch of turn t
PairApologise(t) ==
    /\ pc[t] = "apologise"
    /\ \E sent \in BOOLEAN :
           /\ PairStep(t, IF sent THEN "done" ELSE "raised")
           /\ replies' = [replies EXCEPT ![t] = IF sent THEN Append(@, Apology) ELSE @]
    /\ UNCHANGED << clock, intent, ai_response, draft, calls, response >>

PairNext ==
    \E t \in Turns :
        \/ PairSendChatAction(t)
        \/ PairClassify(t)
        \/ PairDispatch(t)
        \/ PairReply(t)
        \/ PairApologise(t)

SpecPair == PairInit /\ [][PairNext]_vars

----------------------------------------------------------------------------
(* Properties                                                              *)

\* The literal parts of a reply
Literals(reply) == { reply[i].v : i \in { j \in 1..Len(reply) : reply[j].k = "lit" } }

\* The reply templates that open with the error mark
ErrorLiterals ==
    { "[X] Gmail Error: ", "[X] Calendar Error: ", "[X] Tasks Error: ",
      "[X] Failed to create event: ", "[X] Error creating task: ",
      "[X] Error parsing event: " }

\* The pieces of the success templates
SuccessLiterals ==
    { "[OK] **Event Created!**", "[OK] **Event Created Successfully!**",
      "[View Event]", "[View in Google Calendar]", "[clock] ",
      "[OK] Task created: ", "[mail] **Found ", " emails:**",
      "[cal] **Upcoming Events:**", "[OK] **Your Tasks:**" }

\* The instant an ISO timestamp denotes: the seconds since day 0 and the
\* microseconds of the second
iso_instant(iso) ==
    << ((iso[1] * 24 + iso[2]) * 60 + iso[3]) * 60 + iso[4],
       IF Len(iso) >= 5 THEN iso[5] ELSE 0 >>

\* One instant is strictly after another
Later(a, b) == a[1] > b[1] \/ (a[1] = b[1] /\ a[2] > b[2])

\* An instant and the one n hours after it
HoursApart(a, b, n) == b = << a[1] + n * 3600, a[2] >>

\* The calendar insert calls of the turn
InsertCalls == { i \in 1..Len(calls) : calls[i].op = "calendar.events.insert" }

\* The five keyword sets in the order of the claim, and their actions
KeywordSets ==
    << gmail_keywords, calendar_create_keywords, calendar_view_keywords,
       task_create_keywords, task_view_keywords >>

SetActions ==
    << "search_gmail", "create_calendar_event", "get_calendar", "create_task", "get_tasks" >>

MatchingSets(text) == { k \in 1..Len(KeywordSets) : AnyIn(KeywordSets[k], lower(text)) }

\* C1: the intent analyze_intent returns for a message has the action of the
\* first keyword set, in the order mail, event creation, calendar view, task
\* creation, task view, with a keyword that is a substring of the lower-cased
\* text, and chat when no set has one; when a mail keyword occurs the intent
\* is search_gmail with the original text as its query, whatever else occurs.
C1_FirstMatchingSetWins ==
    pc = "dispatch" =>
        /\ intent.action = IF MatchingSets(user_message) = {} THEN "chat"
                           ELSE SetActions[SetMin(MatchingSets(user_message))]
        /\ AnyIn(gmail_keywords, lower(user_message))
               => intent = [action |-> "search_gmail", query |-> user_message]

\* C1 witness: "mail me the schedule", with a mail and an event keyword, has
\* been classified as a mail search for the whole text.
C1_MailBeatsSchedule ==
    /\ pc = "dispatch"
    /\ user_message = Msg_MailSchedule
    /\ {1, 2} \subseteq MatchingSets(user_message)
    /\ intent = [action |-> "search_gmail", query |-> Msg_MailSchedule]

\* C2: every calendar insert call, from the LLM path, the fallback builder or
\* the webhook, is handed an end_time strictly after its start_time.
C2_EndAfterStart ==
    \A i \in InsertCalls : Later(iso_instant(calls[i].end), iso_instant(calls[i].start))

\* The event the completion held, when it held a JSON object that parses
CompletionEvent == parse_match(re_json(Get(ai_response, "response", << "{", "}" >>)))

\* C3: when the completion holds a JSON object without title, start_time or
\* end_time, handle_calendar_creation answers with what parse_event_manually
\* answers for the original message.
C3_MissingFieldFallsBack ==
    ( /\ pc = "handle_calendar_creation"
      /\ CompletionEvent.ok
      /\ ~({"title", "start_time", "end_time"} \subseteq DOMAIN CompletionEvent.value) )
    => \E o \in InsertOutcomes :
           /\ response = parse_event_manually(user_message, clock, o).response
           /\ draft = parse_event_manually(user_message, clock, o).draft

\* C4: parse_event_manually ends, for every message, with a draft holding a
\* title, a start and an end, and never with the "Error parsing event" reply.
C4_FallbackNeverErrors ==
    pc = "parse_event_manually" =>
        /\ draft # NoDraft
        /\ {"title", "start_time", "end_time"} \subseteq DOMAIN draft
        /\ "[X] Error parsing event: " \notin Literals(response)

\* The HH:MM time and the "N hours" duration of a message, as the patterns
\* of the builder find them
ColonTime(message) == re_search("time_colon", lower(message))

Duration(message) == re_search("duration", lower(message))

\* C5: for a message with an HH:MM time and an "N hours" duration the draft
\* of parse_event_manually starts at hour HH, minute MM, and ends N hours
\* after its start.
C5_ColonTimeAndDuration ==
    ( /\ pc = "parse_event_manually"
      /\ ColonTime(user_message).start > 0
      /\ Duration(user_message).start > 0 )
    => /\ draft # NoDraft
       /\ draft["start_time"][2] = ToInt(group(ColonTime(user_message), 1))
       /\ draft["start_time"][3] = ToInt(group(ColonTime(user_message), 2))
       /\ HoursApart(iso_instant(draft["start_time"]), iso_instant(draft["end_time"]),
                     ToInt(group(Duration(user_message), 1)))

\* The hour with an am/pm suffix of a message without an HH:MM time
AmPmTime(message) == re_search("time_ampm", lower(message))

\* The standard conversion of a 12-hour clock hour
To24(hour, suffix) ==
    IF suffix = S_pm /\ hour # 12 THEN hour + 12
    ELSE IF suffix = S_am /\ hour = 12 THEN 0
    ELSE hour

\* C6: for a message whose time is an hour from 1 to 12 with an am/pm suffix,
\* the draft of parse_event_manually starts at the hour in 24-hour form:
\* pm adds 12 unless the hour is 12, 12am is 0.
C6_AmPmConverted ==
    ( /\ pc = "parse_event_manually"
      /\ ColonTime(user_message).start = 0
      /\ AmPmTime(user_message).start > 0
      /\ ToInt(group(AmPmTime(user_message), 1)) \in 1..12 )
    => /\ draft # NoDraft
       /\ draft["start_time"][2] = To24(ToInt(group(AmPmTime(user_message), 1)),
                                        group(AmPmTime(user_message), 2))

\* The text of the message, as written, that stands before the first cue
\* word; the first three tokens when there is no cue word
TitleAsWritten(message) ==
    IF re_title(lower(message)).start > 0
    THEN strip(SubSeq(message, 1, Len(group(re_title(lower(message)), 1))))
    ELSE first_tokens(split(message))

\* C7: the title of a draft of parse_event_manually, for a message with text
\* before its first cue word (at, on, tomorrow, today, next, this), is that
\* text as the user wrote it, and the first three tokens joined by single
\* spaces when there is no cue word.
C7_TitleAsWritten ==
    ( /\ pc = "parse_event_manually"
      /\ draft # NoDraft
      /\ TitleAsWritten(user_message) # <<>> )
    => draft["title"] = TitleAsWritten(user_message)

\* A message without a time pattern, a duration pattern, a cue word after
\* white space, or one of the date keywords today, tomorrow, next week
NoCues(message) ==
    /\ \A k \in 1..Len(time_patterns) : re_search(time_patterns[k], lower(message)).start = 0
    /\ Duration(message).start = 0
    /\ re_title(lower(message)).start = 0
    /\ ~Contains(lower(message), S_today)
    /\ ~Contains(lower(message), S_tomorrow)
    /\ ~Contains(lower(message), S_next_week)

\* The start and the length of the default draft: the day after now, at
\* 10:00:00 with no microseconds, for one hour
DefaultTimes(event, now) ==
    /\ event["start_time"] = << now.day + 1, 10, 0, 0 >>
    /\ HoursApart(iso_instant(event["start_time"]), iso_instant(event["end_time"]), 1)

\* C8 as stated: without any cue the draft starts tomorrow at 10:00:00, lasts
\* one hour, and its title is the first three tokens of the message.
C8_DefaultsFirstThreeTokens ==
    (pc = "parse_event_manually" /\ NoCues(user_message))
    => /\ draft # NoDraft
       /\ DefaultTimes(draft, clock)
       /\ draft["title"] = first_tokens(split(user_message))

\* C8 amended: without any cue the draft starts tomorrow at 10:00:00, lasts
\* one hour, and its title is the first three tokens of the message, or
\* "New Event" when the message has no token at all.
C8_DefaultsOrNewEvent ==
    (pc = "parse_event_manually" /\ NoCues(user_message))
    => /\ draft # NoDraft
       /\ DefaultTimes(draft, clock)
       /\ draft["title"] = IF split(user_message) = <<>> THEN S_New_Event
                           ELSE first_tokens(split(user_message))

\* C8 witness: "quick chat" late in the evening of day 5 has given a draft
\* titled "quick chat" for day 6 from 10:00 to 11:00.
C8_QuickChatDraft ==
    /\ pc = "parse_event_manually"
    /\ user_message = Msg_QuickChat
    /\ NoCues(user_message)
    /\ clock = Now_Evening
    /\ draft # NoDraft
    /\ draft["title"] = Msg_QuickChat
    /\ draft["start_time"] = << 6, 10, 0, 0 >>
    /\ draft["end_time"] = << 6, 11, 0, 0 >>

\* The calls of the turn in which a Google service raised, which the
\* collaborator turns into an error envelope
RaisedCalls == { i \in 1..Len(calls) : "raised" \in DOMAIN calls[i] /\ calls[i].raised }

\* C9: when a collaborator call of the turn returned an error envelope, the
\* reply of the handler holds an error template and no piece of a success
\* template.
C9_ErrorEnvelopeReply ==
    (pc # "unit" /\ RaisedCalls # {})
    => /\ Literals(response) \cap ErrorLiterals # {}
       /\ Literals(response) \cap SuccessLiterals = {}

\* C9 witness: the task list call raised and handle_tasks_view answered with
\* the tasks error.
C9_TasksErrorReply ==
    /\ pc = "handle_tasks_view"
    /\ RaisedCalls # {}
    /\ response[1] = Lit("[X] Tasks Error: ")

\* C10: a classification step changes nothing but the intent (and the place
\* in the handler), and gives a text that was classified before the intent
\* it had the first time.
C10_ClassifyPure ==
    [][ (pc = "classify" /\ pc' = "dispatch") =>
            /\ agent' = agent
            /\ << transport, user_message, clock, ai_response, draft, calls,
                  response, replies >>'
               = << transport, user_message, clock, ai_response, draft, calls,
                    response, replies >>
            /\ (first # <<>> /\ first[1].msg = user_message)
                   => intent' = first[1].intent ]_vars

\* C10 witness: a tracked text has been classified a second time, with the
\* event-creation intent of its first classification.
C10_ClassifiedAgain ==
    /\ pc = "dispatch"
    /\ first # <<>>
    /\ first[1].again
    /\ first[1].msg = user_message
    /\ user_message = Msg_ScheduleFriday
    /\ intent = first[1].intent
    /\ intent.action = "create_calendar_event"

\* The six actions of an intent
SixActions ==
    { "search_gmail", "create_calendar_event", "create_task", "get_calendar",
      "get_tasks", "chat" }

\* The actions analyze_intent returns over the messages
ReturnedActions == { analyze_intent(m).action : m \in Messages }

\* C11: while the agent waits for a message, each of the six actions,
\* get_tasks among them, is what analyze_intent returns for at least one of
\* the messages it may receive.
C11_EveryActionReturned == pc = "idle" => SixActions \subseteq ReturnedActions

\* No part of the text, from a "{" to a "}", is a JSON object
NoJsonObject(text) ==
    ~ \E i \in 1..Len(text), j \in 1..Len(text) :
          /\ i < j
          /\ text[i] = "{"
          /\ text[j] = "}"
          /\ \A k \in (i + 1)..(j - 1) : text[k] \in MemberTokens

\* What handle_calendar_creation gives when parse_event_manually, called
\* with the message after the completion call, gives fallback
IsFallbackOf(fallback) ==
    /\ response = fallback.response
    /\ draft = fallback.draft
    /\ calls = << [op |-> "llm.post"] >> \o fallback.calls

\* C12: when the completion call fails, or the text of the completion holds
\* no JSON object, handle_calendar_creation makes no calendar insert of its
\* own and answers with what parse_event_manually does for the original
\* message.
C12_LlmFailureFallsBack ==
    ( /\ pc = "handle_calendar_creation"
      /\ \/ "error" \in DOMAIN ai_response
         \/ NoJsonObject(ai_response["response"]) )
    => \E o \in InsertOutcomes :
           IsFallbackOf(parse_event_manually(user_message, clock, o))

\* C12 witness: the completion call failed and "Team Meeting tomorrow" still
\* gave an event, created from the draft of the fallback builder.
C12_CreatedWithoutLlm ==
    /\ pc = "handle_calendar_creation"
    /\ "error" \in DOMAIN ai_response
    /\ user_message = Msg_MeetingTomorrow
    /\ draft # NoDraft
    /\ draft["start_time"] = << clock.day + 1, 10, 0, 0 >>
    /\ response[1] = Lit("[OK] **Event Created!**")
    /\ Len(calls) = 2
    /\ calls[2].op = "calendar.events.insert"

\* The creation calls of the turn: calendar and task inserts
CreationCalls ==
    { i \in 1..Len(calls) : calls[i].op \in {"calendar.events.insert", "tasks.tasks.insert"} }

\* C13: the handling of one message makes at most one creation call, a
\* calendar insert or a task insert, whichever path builds the event, and
\* makes no call to a service again after a call to it has failed.
C13_AtMostOneCreation ==
    /\ Cardinality(CreationCalls) <= 1
    /\ \A i \in RaisedCalls : \A j \in (i + 1)..Len(calls) : calls[j].op # calls[i].op

\* C13 witness: the insert of the event the completion held has failed, and
\* the reply says so after that single insert.
C13_FailedInsertNotRetried ==
    /\ pc = "reply"
    /\ intent.action = "create_calendar_event"
    /\ CompletionEvent.ok
    /\ Cardinality(CreationCalls) = 1
    /\ RaisedCalls = CreationCalls
    /\ response[1] = Lit("[X] Failed to create event: ")

\* The message without "add task" and "task:", trimmed
StrippedTitle(message) == strip(replace(replace(message, S_add_task, << >>), S_task_colon, << >>))

\* The task insert calls of the turn and the task list lookups that raised
TaskInserts == { i \in 1..Len(calls) : calls[i].op = "tasks.tasks.insert" }

FailedLookups == { i \in RaisedCalls : calls[i].op = "tasks.tasklists.list" }

\* An empty title is answered with the validation error, without any call
TitleRejected ==
    /\ response = << Lit("[X] Please specify a task title.") >>
    /\ calls = << >>

\* Exactly one task insert is made, with this title
InsertedOnce(title) ==
    /\ Cardinality(TaskInserts) = 1
    /\ \A i \in TaskInserts : calls[i].title = title

\* C14 as stated: for a create_task message the title is the message without
\* "add task" and "task:", trimmed; an empty title gets the validation error
\* and no task insert, any other title exactly one task insert with it.
C14_TitleInsertedOnce ==
    (pc = "reply" /\ intent.action = "create_task")
    => IF StrippedTitle(user_message) = << >>
       THEN TitleRejected
       ELSE InsertedOnce(StrippedTitle(user_message))

\* C14 amended: as above, but a title that is not empty gets exactly one
\* task insert with it only when the lookup of the task lists succeeds; when
\* the lookup fails no insert is made and the reply is the creation error.
C14_TitleInsertedUnlessLookupFails ==
    (pc = "reply" /\ intent.action = "create_task")
    => IF StrippedTitle(user_message) = << >>
       THEN TitleRejected
       ELSE IF FailedLookups # {}
       THEN TaskInserts = {} /\ response[1] = Lit("[X] Error creating task: ")
       ELSE InsertedOnce(StrippedTitle(user_message))

\* C14 witness: "add task" has been answered with the validation error and
\* no call was made.
C14_EmptyTitleRejected ==
    /\ pc = "reply"
    /\ intent.action = "create_task"
    /\ user_message = Msg_AddTask
    /\ StrippedTitle(user_message) = << >>
    /\ TitleRejected

\* The day the claim gives a draft: today when the message holds "today",
\* tomorrow otherwise, and seven days more whenever it holds "next week"
ClaimedDay(message, now) ==
    (IF Contains(lower(message), S_today) THEN now.day ELSE now.day + 1)
    + (IF Contains(lower(message), S_next_week) THEN 7 ELSE 0)

\* C15: the start of a draft of parse_event_manually is tomorrow by default,
\* today when the message contains "today", and seven days later than that
\* whenever the message contains "next week".
C15_DateKeywords ==
    (pc = "parse_event_manually" /\ draft # NoDraft)
    => draft["start_time"][1] = ClaimedDay(user_message, clock)

\* C16: ai_chat returns an envelope whatever the post meets: with an error
\* and an apology as response when the post raises, answers another status
\* than 200 or answers 200 with a malformed body, and with success = true
\* and the completion as response otherwise; every envelope has a response
\* and exactly one of error and success.
C16_AiChatEnvelope ==
    pc = "ai_chat" =>
        /\ "response" \in DOMAIN ai_response
        /\ ("error" \in DOMAIN ai_response) # ("success" \in DOMAIN ai_response)
        /\ IF calls[1].kind = "ok"
           THEN /\ "success" \in DOMAIN ai_response
                /\ ai_response["success"] = TRUE
                /\ ai_response["response"] = calls[1].content
           ELSE /\ "error" \in DOMAIN ai_response
                /\ ai_response["response"] \in {SorryCouldNot, SorryError}

\* C16 witness: the post has timed out and ai_chat has returned the error
\* envelope with its apology.
C16_TimeoutEnvelope ==
    /\ pc = "ai_chat"
    /\ calls[1].kind = "raise"
    /\ ai_response = [error |-> "ConnectTimeout", response |-> SorryError]

\* C17: no exception leaves telegram_message, at whatever step it is raised,
\* and a message whose handling is over has received exactly one reply.
C17_CaughtAndRepliedOnce ==
    /\ pc # "raised"
    /\ (pc = "done" /\ transport = "telegram") => Len(replies) = 1

\* What turn t holds besides its place in the handler
TurnVars(t) ==
    << intent[t], ai_response[t], draft[t], calls[t], response[t], replies[t], clock[t] >>

\* A handler's result is what turn t holds
SameResult(t, result) == result.response = response[t] /\ result.calls = calls[t]

\* The reply, the calls and the draft of turn t are those its handler gives
\* for the text of turn t and some results of the external calls of turn t
OwnResult(t) ==
    CASE intent[t].action = "search_gmail" ->
            \E o \in ListOutcomes(MaxEmails) :
                SameResult(t, handle_gmail_search(user_message[t], o))
      [] intent[t].action = "create_calendar_event" ->
            \E http \in HttpOutcomes, o \in InsertOutcomes :
                /\ ai_chat(http) = ai_response[t]
                /\ SameResult(t, handle_calendar_creation(
                                     [action |-> "create_calendar_event",
                                      title |-> user_message[t], query |-> user_message[t]],
                                     http, clock[t], o))
      [] intent[t].action = "create_task" ->
            \E o \in TaskOutcomes :
                SameResult(t, handle_task_creation([title |-> user_message[t]], o))
      [] intent[t].action = "get_calendar" ->
            \E o \in ListOutcomes(MaxEvents) : SameResult(t, handle_calendar_view(o))
      [] intent[t].action = "get_tasks" ->
            \E o \in ListOutcomes(MaxTasks) : SameResult(t, handle_tasks_view(o))
      [] OTHER ->
            \E http \in HttpOutcomes :
                ai_chat(http) = ai_response[t] /\ SameResult(t, handle_chat(http))

\* C18: with two turns interleaved in any way, no step writes a field of
\* the agent, a step of one turn changes nothing the other turn holds, and
\* the reply a turn is about to send is the one its handler gives for its
\* own text and the results of its own external calls.
C18_TurnsIndependent ==
    /\ [](\A t \in Turns : pc[t] = "reply" => OwnResult(t))
    /\ [][ /\ agent' = agent
           /\ \A t \in Turns : pc'[t] = pc[t] => TurnVars(t)' = TurnVars(t) ]_vars

\* C18 witness: two turns with the same text, one whose mail search failed
\* and one whose mail search succeeded, have each sent the reply of their own
\* search.
C18_OneFailsOtherSucceeds ==
    /\ Len(pc) = 2
    /\ pc = << "done", "done" >>
    /\ user_message = << Msg_MailSchedule, Msg_MailSchedule >>
    /\ calls[1][1].raised
    /\ ~calls[2][1].raised
    /\ replies[1] = << << Lit("[X] Gmail Error: "), Val("error", "HttpError 500") >> >>
    /\ replies[2] = << response[2] >>
    /\ response[2][1] = Lit("[mail] **Found ")
    /\ agent = AgentReady

============================================================================
